---- MODULE Spec2Model ----
\* Validator and backtracking solver of the 8x8 dungeon puzzle (src/main.rs).
EXTENDS Integers, Sequences, FiniteSets, TLC

\* ---------------------------------------------------------------- data
\* enum Cell
Unknown == "Unknown"
Empty == "Empty"
Wall == "Wall"
Monster == "Monster"
Chest == "Chest"
Cell == {Unknown, Empty, Wall, Monster, Chest}

BOARD_SIZE == 8
Idx == 0..(BOARD_SIZE - 1)

\* ---------------------------------------------------------------- bounds
\* The inputs are the boards of main() plus four more, each with at most
\* MaxEdits cells of Window overwritten.
MaxEdits == 2
\* Completions are enumerated for boards of at most MaxFill Unknown cells.
MaxFill == 4

\* ---------------------------------------------------------------- inputs
\* A board text: the column targets, then per row its target and its cells.
\* main.rs line 558
good1 ==
  LET e == Empty  w == Wall  m == Monster  c == Chest IN
  << <<8,8,8,8,8,8,8,8>>,
     <<8, w,w,w,w,w,w,w,w>>,
     <<8, w,w,w,w,w,w,w,w>>,
     <<8, w,w,w,w,w,w,w,w>>,
     <<8, w,w,w,w,w,w,w,w>>,
     <<8, w,w,w,w,w,w,w,w>>,
     <<8, w,w,w,w,w,w,w,w>>,
     <<8, w,w,w,w,w,w,w,w>>,
     <<8, w,w,w,w,w,w,w,w>> >>
\* main.rs line 570
good2 ==
  LET e == Empty  w == Wall  m == Monster  c == Chest IN
  << <<8,8,8,7,8,8,8,8>>,
     <<8, w,w,w,w,w,w,w,w>>,
     <<8, w,w,w,w,w,w,w,w>>,
     <<7, w,w,w,e,w,w,w,w>>,
     <<8, w,w,w,w,w,w,w,w>>,
     <<8, w,w,w,w,w,w,w,w>>,
     <<8, w,w,w,w,w,w,w,w>>,
     <<8, w,w,w,w,w,w,w,w>>,
     <<8, w,w,w,w,w,w,w,w>> >>
\* main.rs line 582
good3 ==
  LET e == Empty  w == Wall  m == Monster  c == Chest IN
  << <<8,7,7,7,5,6,5,8>>,
     <<8, w,w,w,w,w,w,w,w>>,
     <<5, w,w,w,w,e,e,e,w>>,
     <<3, w,m,e,e,e,w,e,w>>,
     <<5, w,w,w,w,e,e,e,w>>,
     <<8, w,w,w,w,w,w,w,w>>,
     <<8, w,w,w,w,w,w,w,w>>,
     <<8, w,w,w,w,w,w,w,w>>,
     <<8, w,w,w,w,w,w,w,w>> >>
\* main.rs line 594
good4 ==
  LET e == Empty  w == Wall  m == Monster  c == Chest IN
  << <<3,5,2,5,5,8,8,8>>,
     <<8, w,w,w,w,w,w,w,w>>,
     <<5, w,w,e,e,e,w,w,w>>,
     <<5, w,w,e,e,c,w,w,w>>,
     <<3, e,e,e,e,e,w,w,w>>,
     <<7, e,w,w,w,w,w,w,w>>,
     <<5, e,e,e,w,w,w,w,w>>,
     <<6, e,w,e,w,w,w,w,w>>,
     <<5, e,e,e,w,w,w,w,w>> >>
\* main.rs line 612
bad1 ==
  LET e == Empty  w == Wall  m == Monster  c == Chest IN
  << <<8,8,8,8,8,1,8,8>>,
     <<8, w,w,w,w,w,w,w,w>>,
     <<8, w,w,w,w,w,w,w,w>>,
     <<8, w,w,w,w,w,w,w,w>>,
     <<8, w,w,w,w,w,w,w,w>>,
     <<8, w,w,w,w,w,w,w,w>>,
     <<8, w,w,w,w,w,w,w,w>>,
     <<8, w,w,w,w,w,w,w,w>>,
     <<8, w,w,w,w,w,w,w,w>> >>
\* main.rs line 624
bad2 ==
  LET e == Empty  w == Wall  m == Monster  c == Chest IN
  << <<8,8,8,7,7,6,8,8>>,
     <<8, w,w,w,w,w,w,w,w>>,
     <<7, w,w,w,w,w,e,w,w>>,
     <<5, w,w,w,e,e,e,w,w>>,
     <<8, w,w,w,w,w,w,w,w>>,
     <<8, w,w,w,w,w,w,w,w>>,
     <<8, w,w,w,w,w,w,w,w>>,
     <<8, w,w,w,w,w,w,w,w>>,
     <<8, w,w,w,w,w,w,w,w>> >>
\* main.rs line 636
bad3 ==
  LET e == Empty  w == Wall  m == Monster  c == Chest IN
  << <<8,8,8,8,5,6,5,8>>,
     <<8, w,w,w,w,w,w,w,w>>,
     <<5, w,w,w,w,e,e,e,w>>,
     <<6, w,w,w,w,e,w,e,w>>,
     <<5, w,w,w,w,m,e,e,w>>,
     <<8, w,w,w,w,w,w,w,w>>,
     <<8, w,w,w,w,w,w,w,w>>,
     <<8, w,w,w,w,w,w,w,w>>,
     <<8, w,w,w,w,w,w,w,w>> >>
\* main.rs line 648
bad4 ==
  LET e == Empty  w == Wall  m == Monster  c == Chest IN
  << <<5,6,4,4,3,8,8,8>>,
     <<8, w,w,w,w,w,w,w,w>>,
     <<5, w,w,e,e,e,w,w,w>>,
     <<5, w,w,e,e,c,w,w,w>>,
     <<3, e,e,e,e,e,w,w,w>>,
     <<6, e,w,w,w,e,w,w,w>>,
     <<3, e,e,e,e,e,w,w,w>>,
     <<8, w,w,w,w,w,w,w,w>>,
     <<8, w,w,w,w,w,w,w,w>> >>
\* main.rs line 660
bad5 ==
  LET e == Empty  w == Wall  m == Monster  c == Chest IN
  << <<8,4,6,4,5,6,5,8>>,
     <<8, w,w,w,w,w,w,w,w>>,
     <<5, w,e,e,e,w,w,w,w>>,
     <<6, w,e,w,e,w,w,w,w>>,
     <<6, w,e,w,e,w,w,w,w>>,
     <<5, w,e,e,e,w,w,w,w>>,
     <<5, w,w,w,w,e,e,e,w>>,
     <<6, w,w,w,w,e,w,e,w>>,
     <<5, w,w,w,w,e,e,e,w>> >>
\* main.rs line 672
bad6 ==
  LET e == Empty  w == Wall  m == Monster  c == Chest IN
  << <<8,8,8,8,2,4,5,8>>,
     <<8, w,w,w,w,w,w,w,w>>,
     <<8, w,w,w,w,w,w,w,w>>,
     <<6, w,w,w,w,e,e,w,w>>,
     <<6, w,w,w,w,e,e,w,w>>,
     <<7, w,w,w,w,e,w,w,w>>,
     <<5, w,w,w,w,e,e,e,w>>,
     <<6, w,w,w,w,e,w,e,w>>,
     <<5, w,w,w,w,e,e,e,w>> >>
monster_pairs ==
  LET e == Empty  w == Wall  m == Monster  c == Chest IN
  << <<8,8,7,7,8,7,7,8>>,
     <<8, w,w,w,w,w,w,w,w>>,
     <<8, w,w,w,w,w,w,w,w>>,
     <<6, w,w,m,m,w,w,w,w>>,
     <<8, w,w,w,w,w,w,w,w>>,
     <<8, w,w,w,w,w,w,w,w>>,
     <<8, w,w,w,w,w,w,w,w>>,
     <<6, w,w,w,w,w,m,m,w>>,
     <<8, w,w,w,w,w,w,w,w>> >>
wide_entrance ==
  LET e == Empty  w == Wall  m == Monster  c == Chest IN
  << <<5,5,3,6,8,8,8,8>>,
     <<5, c,e,e,w,w,w,w,w>>,
     <<5, e,e,e,w,w,w,w,w>>,
     <<5, e,e,e,w,w,w,w,w>>,
     <<6, w,w,e,e,w,w,w,w>>,
     <<6, w,w,e,e,w,w,w,w>>,
     <<8, w,w,w,w,w,w,w,w>>,
     <<8, w,w,w,w,w,w,w,w>>,
     <<8, w,w,w,w,w,w,w,w>> >>
\* main.rs line 542
puzzle_5_8 ==
  LET u == Unknown  e == Empty  w == Wall  m == Monster IN
  << <<3,5,3,4,4,2,5,3>>,
     <<4, m,u,u,u,m,u,m,u>>,
     <<4, u,u,u,u,u,u,u,u>>,
     <<2, m,u,u,u,u,u,u,u>>,
     <<4, u,u,u,u,u,u,u,m>>,
     <<6, m,u,u,u,u,u,u,u>>,
     <<2, u,u,u,u,u,u,u,m>>,
     <<3, u,u,u,u,u,u,u,u>>,
     <<4, u,m,u,u,u,m,u,m>> >>
\* a ring of corridor around four Unknown cells
ring ==
  LET u == Unknown  e == Empty  w == Wall  m == Monster IN
  << <<8,4,5,5,4,8,8,8>>,
     <<8, w,w,w,w,w,w,w,w>>,
     <<4, w,e,e,e,e,w,w,w>>,
     <<5, w,e,u,u,e,w,w,w>>,
     <<5, w,e,u,u,e,w,w,w>>,
     <<4, w,e,e,e,e,w,w,w>>,
     <<8, w,w,w,w,w,w,w,w>>,
     <<8, w,w,w,w,w,w,w,w>>,
     <<8, w,w,w,w,w,w,w,w>> >>
\* a puzzle with one solution
small_puzzle ==
  LET u == Unknown  e == Empty  w == Wall  m == Monster IN
  << <<8,7,6,6,5,7,8,8>>,
     <<8, w,w,w,w,w,w,w,w>>,
     <<5, w,w,e,e,e,w,w,w>>,
     <<5, w,m,u,u,e,w,w,w>>,
     <<6, w,w,u,u,e,w,w,w>>,
     <<7, w,w,w,m,w,w,w,w>>,
     <<8, w,w,w,w,w,w,w,w>>,
     <<8, w,w,w,w,w,w,w,w>>,
     <<8, w,w,w,w,w,w,w,w>> >>

\* Board::from_string: the Board of a board text.
from_string(spec) ==
  [ cells |-> [i \in Idx |-> [j \in Idx |-> spec[i + 2][j + 2]]],
    column_counts |-> [i \in Idx |-> spec[1][i + 1]],
    row_counts |-> [i \in Idx |-> spec[i + 2][1]] ]

\* ---------------------------------------------------------------- grid
is_in_bounds(r, c) == r \in 0..(BOARD_SIZE - 1) /\ c \in 0..(BOARD_SIZE - 1)

\* Out-of-board coordinates read as Wall.
at(b, r, c) == IF is_in_bounds(r, c) THEN b.cells[r][c] ELSE Wall

\* [(r - 1, c), (r, c - 1), (r, c + 1), (r + 1, c)]
neighbors(r, c) == << <<r - 1, c>>, <<r, c - 1>>, <<r, c + 1>>, <<r + 1, c>> >>

\* iter.filter(|x| matches!(at(x), k)).count() over a coordinate array
count_kind(b, coords, k) ==
  Cardinality({n \in DOMAIN coords : at(b, coords[n][1], coords[n][2]) = k})

\* Number of cells of kind k in row i / column j.
row_count(b, i, k) == Cardinality({j \in Idx : b.cells[i][j] = k})
col_count(b, j, k) == Cardinality({i \in Idx : b.cells[i][j] = k})

\* enumerate().find_map(..): <<i>> for the first index where bad holds, else <<>>
RECURSIVE find_index(_, _)
find_index(bad, i) ==
  IF i = BOARD_SIZE THEN <<>>
  ELSE IF bad[i] THEN <<i>>
  ELSE find_index(bad, i + 1)

\* ---------------------------------------------------------------- line counts
rows_acceptable(b) ==
  find_index([i \in Idx |->
      LET walls == row_count(b, i, Wall)
          unkns == row_count(b, i, Unknown)
      IN ~(b.row_counts[i] \in walls..(walls + unkns))], 0)

cols_acceptable(b) ==
  find_index([i \in Idx |->
      LET walls == col_count(b, i, Wall)
          unkns == col_count(b, i, Unknown)
      IN ~(b.column_counts[i] \in walls..(walls + unkns))], 0)

\* ---------------------------------------------------------------- dead ends
is_dead_end_any3(b, r, c) ==
  IF at(b, r, c) \in {Unknown, Wall} THEN FALSE
  ELSE count_kind(b, neighbors(r, c), Wall) >= 3

is_dead_end(b, r, c) ==
  IF at(b, r, c) \in {Unknown, Wall} THEN FALSE
  ELSE count_kind(b, neighbors(r, c), Wall) = 3

maybe_dead_end_two_walls(b, r, c) ==
  LET walls == count_kind(b, neighbors(r, c), Wall)
      air == count_kind(b, neighbors(r, c), Empty)
  IN walls <= 2 /\ air <= 1

maybe_dead_end(b, r, c) ==
  LET walls == count_kind(b, neighbors(r, c), Wall)
      air == count_kind(b, neighbors(r, c), Empty)
  IN walls <= 3 /\ air <= 1

\* ---------------------------------------------------------------- treasure rooms
inside_coords(r, c) ==
  << <<r, c>>, <<r, c + 1>>, <<r, c + 2>>,
     <<r + 1, c>>, <<r + 1, c + 1>>, <<r + 1, c + 2>>,
     <<r + 2, c>>, <<r + 2, c + 1>>, <<r + 2, c + 2>> >>

outside_coords(r, c) ==
  << <<r - 1, c>>, <<r - 1, c + 1>>, <<r - 1, c + 2>>,
     <<r, c - 1>>, <<r, c + 3>>,
     <<r + 1, c - 1>>, <<r + 1, c + 3>>,
     <<r + 2, c - 1>>, <<r + 2, c + 3>>,
     <<r + 3, c>>, <<r + 3, c + 1>>, <<r + 3, c + 2>> >>

RECURSIVE inside_any_chests(_, _, _, _, _)
inside_any_chests(b, coords, n, chest_seen, fill) ==
  IF n > Len(coords) THEN TRUE
  ELSE LET k == at(b, coords[n][1], coords[n][2]) IN
       IF k = Chest THEN inside_any_chests(b, coords, n + 1, TRUE, fill)
       ELSE IF k \in fill THEN inside_any_chests(b, coords, n + 1, chest_seen, fill)
       ELSE FALSE

\* The loop over inside_coords: at most one Chest, every other cell in `fill`.
RECURSIVE inside_ok(_, _, _, _, _)
inside_ok(b, coords, n, chest_seen, fill) ==
  IF n > Len(coords) THEN TRUE
  ELSE LET k == at(b, coords[n][1], coords[n][2]) IN
       IF k = Chest
       THEN IF chest_seen THEN FALSE ELSE inside_ok(b, coords, n + 1, TRUE, fill)
       ELSE IF k \in fill THEN inside_ok(b, coords, n + 1, chest_seen, fill)
       ELSE FALSE

maybe_treasure_room(b, r, c) ==
  /\ inside_ok(b, inside_coords(r, c), 1, FALSE, {Empty, Unknown})
  /\ LET wall_count == count_kind(b, outside_coords(r, c), Wall)
         unknown_count == count_kind(b, outside_coords(r, c), Unknown)
     IN (Len(outside_coords(r, c)) - 1) \in wall_count..(wall_count + unknown_count)

is_treasure_room(b, r, c) ==
  /\ inside_ok(b, inside_coords(r, c), 1, FALSE, {Empty})
  /\ count_kind(b, outside_coords(r, c), Wall) = Len(outside_coords(r, c)) - 1

treasure_room_candidates(r, c) ==
  << <<r - 2, c - 2>>, <<r - 2, c - 1>>, <<r - 2, c>>,
     <<r - 1, c - 2>>, <<r - 1, c - 1>>, <<r - 1, c>>,
     <<r, c - 2>>, <<r, c - 1>>, <<r, c>> >>

\* candidates.into_iter().find(..): <<room>> for the first hit, else <<>>
RECURSIVE find_room(_, _, _, _)
find_room(b, cands, n, exact) ==
  IF n > Len(cands) THEN <<>>
  ELSE IF (IF exact THEN is_treasure_room(b, cands[n][1], cands[n][2])
                    ELSE maybe_treasure_room(b, cands[n][1], cands[n][2]))
       THEN <<cands[n]>>
       ELSE find_room(b, cands, n + 1, exact)

\* ---------------------------------------------------------------- check_solved
has_unknown(b) == \E i \in Idx : \E j \in Idx : b.cells[i][j] = Unknown

bad_row_last(b) ==
  LET bad == {i \in Idx : row_count(b, i, Wall) # b.row_counts[i]}
  IN IF bad = {} THEN <<>> ELSE <<CHOOSE i \in bad : \A k \in bad : k <= i>>

bad_row(b) ==
  find_index([i \in Idx |-> row_count(b, i, Wall) # b.row_counts[i]], 0)

bad_col(b) ==
  find_index([i \in Idx |-> col_count(b, i, Wall) # b.column_counts[i]], 0)

\* The body of the double loop at the cell (i, j): the error, or the rooms
\* found so far as <<"Rooms", treasure_rooms>>.
visit_cell(b, i, j, treasure_rooms) ==
  LET is_monster == b.cells[i][j] = Monster
      dead_end == is_dead_end(b, i, j)
  IN IF is_monster # dead_end
     THEN IF is_monster THEN <<"MonsterNotInDeadEnd", i, j>>
                        ELSE <<"DeadEndWithNoMontster", i, j>>
     ELSE IF b.cells[i][j] = Chest
     THEN LET maybe_room == find_room(b, treasure_room_candidates(i, j), 1, TRUE)
          IN IF maybe_room = <<>>
             THEN <<"NoTreasureRoomForChest", i, j>>
             ELSE <<"Rooms", Append(treasure_rooms, maybe_room[1])>>
     ELSE <<"Rooms", treasure_rooms>>

\* for j in 0..BOARD_SIZE, in row i, one application per iteration
scan_row(b, i, rooms) ==
  LET loop[s \in [j : 0..BOARD_SIZE, treasure_rooms : Seq(Int \X Int)]] ==
        IF s.j = BOARD_SIZE THEN <<"Rooms", s.treasure_rooms>>
        ELSE LET visited == visit_cell(b, i, s.j, s.treasure_rooms)
             IN IF visited[1] # "Rooms" THEN visited
                ELSE loop[[j |-> s.j + 1, treasure_rooms |-> visited[2]]]
  IN loop[[j |-> 0, treasure_rooms |-> rooms]]

\* for i in 0..BOARD_SIZE, one application per iteration
scan_cells(b) ==
  LET loop[s \in [i : 0..BOARD_SIZE, treasure_rooms : Seq(Int \X Int)]] ==
        IF s.i = BOARD_SIZE THEN <<"Rooms", s.treasure_rooms>>
        ELSE LET scanned == scan_row(b, s.i, s.treasure_rooms)
             IN IF scanned[1] # "Rooms" THEN scanned
                ELSE loop[[i |-> s.i + 1, treasure_rooms |-> scanned[2]]]
  IN loop[[i |-> 0, treasure_rooms |-> <<>>]]

\* Offsets, relative to a room's top-left corner, whose 2x2 block is not tested.
affected_coords ==
  {<<-2, c>> : c \in (-1)..2}
    \cup {<<r, c>> : r \in (-1)..2, c \in (-2)..3}
    \cup {<<3, c>> : c \in (-1)..2}

coords_to_check(treasure_rooms) ==
  LET exempt == {p \in {<<q[1] + d[1], q[2] + d[2]>> :
                          q \in {treasure_rooms[n] : n \in DOMAIN treasure_rooms},
                          d \in affected_coords} :
                   is_in_bounds(p[1], p[2])}
  IN [i \in Idx |-> [j \in Idx |-> <<i, j>> \notin exempt]]

is_empty_2x2(b, i, j) ==
  \A p \in {<<i, j>>, <<i, j + 1>>, <<i + 1, j>>, <<i + 1, j + 1>>} :
     b.cells[p[1]][p[2]] = Empty

\* for j in 0..BOARD_SIZE - 1, from j on, in row i: <<i, j>> of the first
\* tested all-Empty block, else <<>>
RECURSIVE scan_block_row(_, _, _, _)
scan_block_row(b, check, i, j) ==
  IF j = BOARD_SIZE - 1 THEN <<>>
  ELSE IF check[i][j] /\ is_empty_2x2(b, i, j) THEN <<i, j>>
  ELSE scan_block_row(b, check, i, j + 1)

\* for i in 0..BOARD_SIZE - 1, over the table coords_to_check
scan_blocks(b, coords) ==
  LET loop[s \in [check : [Idx -> [Idx -> BOOLEAN]], i : 0..BOARD_SIZE]] ==
        IF s.i = BOARD_SIZE - 1 THEN <<>>
        ELSE LET found == scan_block_row(b, s.check, s.i, 0)
             IN IF found # <<>> THEN found
                ELSE loop[[s EXCEPT !.i = s.i + 1]]
  IN loop[[check |-> coords, i |-> 0]]

\* (0..8).flat_map(|r| (0..8).map(|c| (r, c))).find(|(r, c)| cells[r][c] is kind):
\* <<(r, c)>> for the first such cell in row-major order, else <<>>
RECURSIVE first_in_row(_, _, _, _)
first_in_row(b, kind, r, c) ==
  IF c = BOARD_SIZE THEN <<>>
  ELSE IF b.cells[r][c] = kind THEN << <<r, c>> >>
  ELSE first_in_row(b, kind, r, c + 1)

RECURSIVE first_cell(_, _, _)
first_cell(b, kind, r) ==
  IF r = BOARD_SIZE THEN <<>>
  ELSE LET found == first_in_row(b, kind, r, 0)
       IN IF found # <<>> THEN found ELSE first_cell(b, kind, r + 1)

\* The while loop over the to_check stack, one application per iteration;
\* yields connected_cells.
flood(b, first_empty_cell) ==
  LET loop[s \in [to_check : Seq(Int \X Int), seen : SUBSET (Idx \X Idx),
                  connected_cells : Nat]] ==
        IF s.to_check = <<>> THEN s.connected_cells
        ELSE LET p == s.to_check[Len(s.to_check)]
                 rest == SubSeq(s.to_check, 1, Len(s.to_check) - 1)
             IN IF p \in s.seen
                THEN loop[[s EXCEPT !.to_check = rest]]
                ELSE loop[[to_check |-> rest \o SelectSeq(neighbors(p[1], p[2]),
                                             LAMBDA q : at(b, q[1], q[2]) # Wall),
                           seen |-> s.seen \cup {p},
                           connected_cells |-> s.connected_cells + 1]]
  IN loop[[to_check |-> first_empty_cell, seen |-> {}, connected_cells |-> 0]]

total_empty(b) ==
  Cardinality({p \in Idx \X Idx : b.cells[p[1]][p[2]] # Wall})

\* check_solved from `let coords_to_check` on, given the rooms of the Chests.
check_corridors(b, rooms) ==
  LET rest[treasure_rooms \in Seq(Int \X Int)] ==
        LET wide == scan_blocks(b, coords_to_check(treasure_rooms))
            first_empty_cell == first_cell(b, Empty, 0)
        IN IF wide # <<>> THEN <<"CorridorsTooWide", wide[1], wide[2]>>
           ELSE IF first_empty_cell = <<>> THEN <<"Ok">>
           ELSE IF flood(b, first_empty_cell) # total_empty(b)
                THEN <<"UnconnectedCorridors">>
                ELSE <<"Ok">>
  IN rest[rooms]

check_solved(b) ==
  IF has_unknown(b) THEN <<"Unsolved">>
  ELSE IF bad_row(b) # <<>> THEN <<"WrongRowCount", bad_row(b)[1]>>
  ELSE IF bad_col(b) # <<>> THEN <<"WrongColumnCount", bad_col(b)[1]>>
  ELSE LET scanned == scan_cells(b)
       IN IF scanned[1] # "Rooms" THEN scanned
          ELSE check_corridors(b, scanned[2])

\* ---------------------------------------------------------------- maybe_solvable
\* The body of the double loop at the cell (i, j).
visit_partial(b, i, j) ==
  LET is_monster == b.cells[i][j] = Monster
  IN IF is_monster /\ ~maybe_dead_end(b, i, j)
     THEN <<"MonsterNotInDeadEnd", i, j>>
     ELSE IF ~is_monster /\ is_dead_end(b, i, j)
     THEN <<"DeadEndWithNoMontster", i, j>>
     ELSE IF b.cells[i][j] = Chest
             /\ find_room(b, treasure_room_candidates(i, j), 1, FALSE) = <<>>
     THEN <<"NoTreasureRoomForChest", i, j>>
     ELSE <<"Ok">>

RECURSIVE scan_partial_row(_, _, _)
scan_partial_row(b, i, j) ==
  IF j = BOARD_SIZE THEN <<"Ok">>
  ELSE IF visit_partial(b, i, j) # <<"Ok">> THEN visit_partial(b, i, j)
  ELSE scan_partial_row(b, i, j + 1)

RECURSIVE scan_partial(_, _)
scan_partial(b, i) ==
  IF i = BOARD_SIZE THEN <<"Ok">>
  ELSE IF scan_partial_row(b, i, 0) # <<"Ok">> THEN scan_partial_row(b, i, 0)
  ELSE scan_partial(b, i + 1)

maybe_solvable(b) ==
  IF rows_acceptable(b) # <<>> THEN <<"WrongRowCount", rows_acceptable(b)[1]>>
  ELSE IF cols_acceptable(b) # <<>> THEN <<"WrongColumnCount", cols_acceptable(b)[1]>>
  ELSE scan_partial(b, 0)

\* ---------------------------------------------------------------- state
VARIABLES
  board,     \* the Board that main() built and solve() mutates
  pc,        \* "main", "call" (a solve() call starts), "failed" (an `if` of
             \* solve() was false), "return" (a solve() call returned ret),
             \* "done" (the outermost solve() returned), "checked"
  stack,     \* the active solve() calls that assigned a cell, innermost last
  ret,       \* the value the last solve() call returned
  verdict,   \* what main()'s check_solved() call returned
  board0,    \* history: the Board as main() built it
  returned,  \* history: the cells at the entry of the call that returned last
  checks     \* history: number of check_solved() calls made by solve()

vars == <<board, pc, stack, ret, verdict, board0, returned, checks>>

Templates ==
  << good1, good2, good3, good4, bad1, bad2, bad3, bad4, bad5, bad6,
     monster_pairs, wide_entrance, ring, small_puzzle >>

\* The cells an edit may overwrite.
Window == {<<2, 2>>, <<2, 3>>, <<2, 4>>, <<3, 3>>}

EditSets == {S \in SUBSET Window : Cardinality(S) <= MaxEdits}

\* The board text `spec` with the cells of DOMAIN edit overwritten; with
\* `recount` the targets are the Wall counts of the edited grid.
Input(spec, edit, recount) ==
  LET b == from_string(spec)
      cells == [i \in Idx |-> [j \in Idx |->
                  IF <<i, j>> \in DOMAIN edit THEN edit[<<i, j>>] ELSE b.cells[i][j]]]
      e == [b EXCEPT !.cells = cells]
  IN IF recount
     THEN [e EXCEPT !.row_counts = [i \in Idx |-> row_count(e, i, Wall)],
                    !.column_counts = [j \in Idx |-> col_count(e, j, Wall)]]
     ELSE e

\* The state when main() has built its board.
Start ==
  /\ board0 = board
  /\ pc = "main"
  /\ stack = <<>>
  /\ ret = "none"
  /\ verdict = <<>>
  /\ returned = <<>>
  /\ checks = 0

\* A board of Templates with an edit.
InitEdited ==
  /\ \E t \in DOMAIN Templates : \E S \in EditSets : \E edit \in [S -> Cell] :
       \E recount \in BOOLEAN :
         board = Input(Templates[t], edit, recount)
  /\ Start

\* main() solves puzzle_5_8 as it is; the other boards are also taken edited.
Init ==
  \/ board = from_string(puzzle_5_8) /\ Start
  \/ InitEdited

first_unknown(b) == first_cell(b, Unknown, 0)

set_cell(b, r, c, k) == [b EXCEPT !.cells[r][c] = k]

Top == stack[Len(stack)]
Pop == SubSeq(stack, 1, Len(stack) - 1)

\* main(): puzzle.solve()
Solve ==
  /\ pc = "main"
  /\ pc' = "call"
  /\ UNCHANGED <<board, stack, ret, verdict, board0, returned, checks>>

\* main(): board.check_solved(), on the board as built or as solve() left it
CheckSolved ==
  /\ pc \in {"main", "done"}
  /\ verdict' = check_solved(board)
  /\ pc' = "checked"
  /\ UNCHANGED <<board, stack, ret, board0, returned, checks>>

BaseCasePartial ==
  /\ pc = "call"
  /\ first_unknown(board) = <<>>
  /\ ret' = IF maybe_solvable(board) = <<"Ok">> THEN "Ok" ELSE "Unsolvable"
  /\ returned' = board.cells
  /\ checks' = checks + 1
  /\ pc' = "return"
  /\ UNCHANGED <<board, stack, verdict, board0>>

\* solve(), no Unknown cell: self.check_solved().or(Err(Unsolvable))
BaseCase ==
  /\ pc = "call"
  /\ first_unknown(board) = <<>>
  /\ ret' = IF check_solved(board) = <<"Ok">> THEN "Ok" ELSE "Unsolvable"
  /\ returned' = board.cells
  /\ checks' = checks + 1
  /\ pc' = "return"
  /\ UNCHANGED <<board, stack, verdict, board0>>

AssignMonster ==
  /\ pc = "call"
  /\ first_unknown(board) # <<>>
  /\ LET r == first_unknown(board)[1][1]
         c == first_unknown(board)[1][2]
         assigned == set_cell(board, r, c, Monster)
     IN /\ board' = assigned
        /\ stack' = Append(stack, [r |-> r, c |-> c, phase |-> "wall",
                                   entry |-> board.cells])
        /\ pc' = IF maybe_solvable(assigned) = <<"Ok">> THEN "call" ELSE "failed"
  /\ UNCHANGED <<ret, verdict, board0, returned, checks>>

\* solve(): cells[r][c] = Wall; if maybe_solvable().is_ok() && self.solve()..
AssignWall ==
  /\ pc = "call"
  /\ first_unknown(board) # <<>>
  /\ LET r == first_unknown(board)[1][1]
         c == first_unknown(board)[1][2]
         assigned == set_cell(board, r, c, Wall)
     IN /\ board' = assigned
        /\ stack' = Append(stack, [r |-> r, c |-> c, phase |-> "wall",
                                   entry |-> board.cells])
        /\ pc' = IF maybe_solvable(assigned) = <<"Ok">> THEN "call" ELSE "failed"
  /\ UNCHANGED <<ret, verdict, board0, returned, checks>>

\* The recursive call came back: Ok is passed on (return Ok(())), Unsolvable
\* makes the `if` false.
Return ==
  /\ pc = "return"
  /\ stack # <<>>
  /\ IF ret = "Ok"
     THEN /\ stack' = Pop
          /\ returned' = Top.entry
          /\ pc' = "return"
     ELSE /\ pc' = "failed"
          /\ UNCHANGED <<stack, returned>>
  /\ UNCHANGED <<board, ret, verdict, board0, checks>>

AssignEmptyLeavesUnknown ==
  /\ pc = "failed"
  /\ Top.phase = "wall"
  /\ LET assigned == set_cell(board, Top.r, Top.c, Unknown)
     IN /\ board' = assigned
        /\ pc' = IF maybe_solvable(assigned) = <<"Ok">> THEN "call" ELSE "failed"
  /\ stack' = Append(Pop, [Top EXCEPT !.phase = "empty"])
  /\ UNCHANGED <<ret, verdict, board0, returned, checks>>

\* solve(): cells[r][c] = Empty; if maybe_solvable().is_ok() && self.solve()..
AssignEmpty ==
  /\ pc = "failed"
  /\ Top.phase = "wall"
  /\ LET assigned == set_cell(board, Top.r, Top.c, Empty)
     IN /\ board' = assigned
        /\ pc' = IF maybe_solvable(assigned) = <<"Ok">> THEN "call" ELSE "failed"
  /\ stack' = Append(Pop, [Top EXCEPT !.phase = "empty"])
  /\ UNCHANGED <<ret, verdict, board0, returned, checks>>

RestoreKeep ==
  /\ pc = "failed"
  /\ Top.phase = "empty"
  /\ stack' = Pop
  /\ ret' = "Unsolvable"
  /\ returned' = Top.entry
  /\ pc' = "return"
  /\ UNCHANGED <<board, verdict, board0, checks>>

\* solve(): cells[r][c] = Unknown; Err(Unsolvable)
Restore ==
  /\ pc = "failed"
  /\ Top.phase = "empty"
  /\ board' = set_cell(board, Top.r, Top.c, Unknown)
  /\ stack' = Pop
  /\ ret' = "Unsolvable"
  /\ returned' = Top.entry
  /\ pc' = "return"
  /\ UNCHANGED <<verdict, board0, checks>>

\* The outermost solve() returned to main().
Finish ==
  /\ pc = "return"
  /\ stack = <<>>
  /\ pc' = "done"
  /\ UNCHANGED <<board, stack, ret, verdict, board0, returned, checks>>

Next ==
  \/ Solve
  \/ CheckSolved
  \/ BaseCase
  \/ AssignWall
  \/ Return
  \/ AssignEmpty
  \/ Restore
  \/ Finish

Spec == Init /\ [][Next]_vars

\* The boards of Templates whose edit only punches Unknown cells.
InitHoles ==
  /\ \E t \in DOMAIN Templates : \E S \in EditSets : \E recount \in BOOLEAN :
       board = Input(Templates[t], [p \in S |-> Unknown], recount)
  /\ Start

\* solve() runs on one call stack with nothing to wait for: a step that can be
\* taken is taken.
FairSpec == InitHoles /\ [][Next]_vars /\ WF_vars(Next)

\* ---------------------------------------------------------------- properties
Ok == <<"Ok">>

UnknownCells(cells) == {p \in Idx \X Idx : cells[p[1]][p[2]] = Unknown}
NumUnknown(cells) == Cardinality(UnknownCells(cells))

\* The boards that replace every Unknown cell of b by a kind of `kinds`.
Completions(b, kinds) ==
  {[b EXCEPT !.cells = [i \in Idx |-> [j \in Idx |->
       IF <<i, j>> \in DOMAIN f THEN f[<<i, j>>] ELSE b.cells[i][j]]]] :
     f \in [UnknownCells(b.cells) -> kinds]}

\* solve() has returned success / the validator has accepted the board.
Solved == ret = "Ok" \/ verdict = Ok

NonWall(b) == {p \in Idx \X Idx : b.cells[p[1]][p[2]] # Wall}

Adjacent(p, q) ==
  \/ p[1] = q[1] /\ (p[2] - q[2]) \in {-1, 1}
  \/ p[2] = q[2] /\ (p[1] - q[1]) \in {-1, 1}

\* The non-wall cells joined to a cell of S by a 4-directional path.
RECURSIVE Reach(_, _)
Reach(b, S) ==
  LET N == S \cup {q \in NonWall(b) : \E p \in S : Adjacent(p, q)}
  IN IF N = S THEN S ELSE Reach(b, N)

SingleComponent(b) ==
  NonWall(b) = {} \/ Reach(b, {CHOOSE p \in NonWall(b) : TRUE}) = NonWall(b)

Chests(b) == {p \in Idx \X Idx : b.cells[p[1]][p[2]] = Chest}

\* The corners, among the 9 candidates of the cell (i, j), that are treasure rooms.
RoomsOf(b, i, j) ==
  {q \in {<<i - dr, j - dc>> : dr \in 0..2, dc \in 0..2} : is_treasure_room(b, q[1], q[2])}

\* C1: when solve() returns success, the board has no Unknown cell and
\* check_solved() accepts it - also when main() then validates it.
C1_SolveSuccessIsValid ==
  /\ ret = "Ok" => (UnknownCells(board.cells) = {} /\ check_solved(board) = Ok)
  /\ (ret = "Ok" /\ pc = "checked") => verdict = Ok

\* solve() succeeded on a board that had Unknown cells.
C1_Witness == pc = "done" /\ ret = "Ok" /\ NumUnknown(board0.cells) >= 2

\* C2: a solve() call that returns Unsolvable leaves the cells as they were at
\* its entry - the outermost call and every nested one.
C2_FailureRestoresGrid ==
  /\ (pc = "return" /\ ret = "Unsolvable") => board.cells = returned
  /\ (pc = "done" /\ ret = "Unsolvable") => board.cells = board0.cells

\* A nested call that had assigned a cell has returned Unsolvable.
C2_Witness ==
  /\ pc = "return" /\ ret = "Unsolvable" /\ stack # <<>>
  /\ UnknownCells(returned) # {}

\* C3: a board with a completion that check_solved() accepts is never rejected
\* by maybe_solvable().
C3_PruningSound ==
  (/\ NumUnknown(board.cells) <= MaxFill
   /\ \E f \in Completions(board, {Empty, Wall, Monster, Chest}) : check_solved(f) = Ok)
     => maybe_solvable(board) = Ok

\* C4: solve() returns Unsolvable only if no Wall/Empty completion of the
\* initial board is accepted by check_solved().
C4_SolveComplete ==
  (pc = "done" /\ ret = "Unsolvable" /\ NumUnknown(board0.cells) <= MaxFill)
     => ~ \E f \in Completions(board0, {Wall, Empty}) : check_solved(f) = Ok

\* C5: on an accepted board the non-wall cells are one 4-connected component.
C5_Connected == Solved => SingleComponent(board)

\* C6: on an accepted board every all-Empty 2x2 block lies in the 3x3 interior
\* of a treasure room.
C6_NoWideCorridor ==
  Solved =>
    \A i \in 0..(BOARD_SIZE - 2) : \A j \in 0..(BOARD_SIZE - 2) :
      is_empty_2x2(board, i, j) =>
        \E r \in Idx : \E c \in Idx :
          is_treasure_room(board, r, c) /\ i \in r..(r + 1) /\ j \in c..(c + 1)

\* C7: on an accepted board every Chest has exactly one treasure room among its
\* 9 candidates, and the Chest is the only one in that room.
C7_OneRoomPerChest ==
  Solved =>
    \A p \in Chests(board) :
      /\ Cardinality(RoomsOf(board, p[1], p[2])) = 1
      /\ \A q \in RoomsOf(board, p[1], p[2]) :
           Chests(board) \cap {<<q[1] + dr, q[2] + dc>> : dr \in 0..2, dc \in 0..2} = {p}

\* solve() filled the Unknown cells of a board that holds a Chest.
C7_Witness ==
  pc = "done" /\ ret = "Ok" /\ Chests(board) # {} /\ UnknownCells(board0.cells) # {}

\* ---- the first violation, stated over sets of violations
BadRows(b) == {i \in Idx : Cardinality({j \in Idx : b.cells[i][j] = Wall}) # b.row_counts[i]}
BadCols(b) == {j \in Idx : Cardinality({i \in Idx : b.cells[i][j] = Wall}) # b.column_counts[j]}

\* The cell (i, j) breaks monster <=> dead end, or is a Chest without a room.
BadCell(b, i, j) ==
  \/ (b.cells[i][j] = Monster) # is_dead_end(b, i, j)
  \/ b.cells[i][j] = Chest /\ RoomsOf(b, i, j) = {}

BadCells(b) == {p \in Idx \X Idx : BadCell(b, p[1], p[2])}

\* Row-major position of a coordinate.
Rank(p) == BOARD_SIZE * p[1] + p[2]
First(S) == CHOOSE p \in S : \A q \in S : Rank(p) <= Rank(q)

\* The blocks left untested around the rooms of the Chests.
ExemptBlocks(b) ==
  {<<q[1] + d[1], q[2] + d[2]>> :
     q \in UNION {RoomsOf(b, p[1], p[2]) : p \in Chests(b)}, d \in affected_coords}

WideBlocks(b) ==
  {p \in (0..(BOARD_SIZE - 2)) \X (0..(BOARD_SIZE - 2)) :
     p \notin ExemptBlocks(b) /\ is_empty_2x2(b, p[1], p[2])}

Empties(b) == {p \in Idx \X Idx : b.cells[p[1]][p[2]] = Empty}

\* Some non-wall cell is not joined to the first Empty cell.
Unconnected(b) == Empties(b) # {} /\ Reach(b, {First(Empties(b))}) # NonWall(b)

FirstViolation(b) ==
  IF UnknownCells(b.cells) # {} THEN <<"Unsolved">>
  ELSE IF BadRows(b) # {} THEN <<"WrongRowCount", CHOOSE i \in BadRows(b) : \A k \in BadRows(b) : i <= k>>
  ELSE IF BadCols(b) # {} THEN <<"WrongColumnCount", CHOOSE j \in BadCols(b) : \A k \in BadCols(b) : j <= k>>
  ELSE IF BadCells(b) # {}
  THEN LET p == First(BadCells(b)) IN
       IF (b.cells[p[1]][p[2]] = Monster) # is_dead_end(b, p[1], p[2])
       THEN IF b.cells[p[1]][p[2]] = Monster
            THEN <<"MonsterNotInDeadEnd", p[1], p[2]>>
            ELSE <<"DeadEndWithNoMontster", p[1], p[2]>>
       ELSE <<"NoTreasureRoomForChest", p[1], p[2]>>
  ELSE IF WideBlocks(b) # {}
  THEN <<"CorridorsTooWide", First(WideBlocks(b))[1], First(WideBlocks(b))[2]>>
  ELSE IF Unconnected(b) THEN <<"UnconnectedCorridors">>
  ELSE Ok

\* C8: check_solved() reports the first violation in the order Unsolved, rows,
\* columns, cells (row-major), untested-free 2x2 blocks (row-major),
\* connectivity from the first Empty cell - and Ok when there is none.
C8_FirstViolationReported ==
  (pc = "checked") => verdict = FirstViolation(board)

\* A row error was reported on a board that also has a later bad row, a bad
\* column and a bad cell.
C8_Witness ==
  /\ pc = "checked" /\ verdict[1] = "WrongRowCount"
  /\ Cardinality(BadRows(board)) >= 2 /\ BadCols(board) # {} /\ BadCells(board) # {}

\* C9: a recursive solve() call starts with one Unknown cell fewer than its
\* caller had at entry, the nesting never exceeds the number of Unknown cells
\* of the initial board, check_solved() is called at most 2^(that number)
\* times, and every solve() call started from main() returns.
\* The least k with x <= 2^k.
RECURSIVE Log2Up(_)
Log2Up(x) == IF x <= 1 THEN 0 ELSE 1 + Log2Up((x + 1) \div 2)

C9_Bounds ==
  /\ (pc = "call" /\ stack # <<>>)
        => NumUnknown(board.cells) = NumUnknown(Top.entry) - 1
  /\ Len(stack) <= NumUnknown(board0.cells)
  /\ Log2Up(checks) <= NumUnknown(board0.cells)

C9_SolveTerminates == []C9_Bounds /\ ((pc = "call") ~> (pc = "done"))

\* A search that nested two calls and validated more than one complete board
\* has returned.
C9_Witness == pc = "done" /\ checks >= 2 /\ NumUnknown(board0.cells) >= 2

WallNeighbours(b, r, c) ==
  {d \in {<<-1, 0>>, <<0, -1>>, <<0, 1>>, <<1, 0>>} :
     ~(r + d[1] \in Idx /\ c + d[2] \in Idx) \/ at(b, r + d[1], c + d[2]) = Wall}

Around == (-1)..BOARD_SIZE

\* C10 as stated: is_dead_end(r, c) iff the cell is Empty or Monster and
\* exactly 3 of its 4 neighbours are Wall (false for Chest, Wall, Unknown).
C10_DeadEndEmptyOrMonster ==
  \A r \in Around : \A c \in Around :
    is_dead_end(board, r, c)
      <=> (at(board, r, c) \in {Empty, Monster} /\ Cardinality(WallNeighbours(board, r, c)) = 3)

\* C10 amended: is_dead_end(r, c) iff the cell is Empty, Monster or Chest and
\* exactly 3 of its 4 neighbours (off-board ones counted as Wall) are Wall.
C10_DeadEndNonWall ==
  \A r \in Around : \A c \in Around :
    is_dead_end(board, r, c)
      <=> (at(board, r, c) \in {Empty, Monster, Chest}
             /\ Cardinality(WallNeighbours(board, r, c)) = 3)

\* check_solved() met a Chest with exactly 3 Wall neighbours and reported it
\* as a dead end.
C10_Witness ==
  /\ pc = "checked" /\ verdict[1] = "DeadEndWithNoMontster"
  /\ board.cells[verdict[2]][verdict[3]] = Chest

\* C11: on a board with no Unknown cell, whatever check_solved() accepts
\* maybe_solvable() accepts too; and test by test, on any board: a line whose
\* Wall count equals its target is within the range test, a dead end passes
\* maybe_dead_end(), a treasure room passes maybe_treasure_room().
C11_MaybeSolvableOverApproximates ==
  /\ (UnknownCells(board.cells) = {} /\ check_solved(board) = Ok)
       => maybe_solvable(board) = Ok
  /\ \A i \in Idx :
       /\ (\A k \in 0..i : row_count(board, k, Wall) = board.row_counts[k])
            => (rows_acceptable(board) = <<>> \/ rows_acceptable(board)[1] > i)
       /\ (\A k \in 0..i : col_count(board, k, Wall) = board.column_counts[k])
            => (cols_acceptable(board) = <<>> \/ cols_acceptable(board)[1] > i)
  /\ \A r \in Around : \A c \in Around :
       /\ is_dead_end(board, r, c) => maybe_dead_end(board, r, c)
       /\ is_treasure_room(board, r, c) => maybe_treasure_room(board, r, c)

\* A nested solve() call, entered because maybe_solvable() accepted the last
\* assignment, found check_solved() accepting a board with a Monster in a
\* dead end.
C11_Witness ==
  /\ pc = "return" /\ ret = "Ok" /\ stack # <<>>
  /\ UnknownCells(board.cells) = {}
  /\ \E p \in Idx \X Idx :
       board.cells[p[1]][p[2]] = Monster /\ is_dead_end(board, p[1], p[2])

\* C12: during the search and after solve() has returned, the row and column
\* targets are those of the initial board, every cell that was not Unknown
\* initially holds its initial value, and a cell that was Unknown initially
\* holds Unknown, Wall or Empty.
C12_SolveFrame ==
  /\ board.row_counts = board0.row_counts
  /\ board.column_counts = board0.column_counts
  /\ \A i \in Idx : \A j \in Idx :
       IF board0.cells[i][j] = Unknown
       THEN board.cells[i][j] \in {Unknown, Wall, Empty}
       ELSE board.cells[i][j] = board0.cells[i][j]

\* The search is in progress on a board with Monsters: one initially Unknown
\* cell holds Wall, another holds Empty, and a third is still Unknown.
C12_Witness ==
  /\ pc = "call" /\ Len(stack) >= 2
  /\ \E p \in Idx \X Idx : board0.cells[p[1]][p[2]] = Monster
  /\ \E p, q, u \in UnknownCells(board0.cells) :
       /\ board.cells[p[1]][p[2]] = Wall
       /\ board.cells[q[1]][q[2]] = Empty
       /\ board.cells[u[1]][u[2]] = Unknown
====
